---- MODULE Spec2Model ----
(***************************************************************************)
(* smartstat-frontend: the axios client with its token-bearing request     *)
(* interceptor and its refresh-on-401 response interceptor, and the admin  *)
(* VendorsPage component.                                                  *)
(*                                                                         *)
(* JavaScript runs each handler to completion: one action is one stretch   *)
(* of code between two network awaits (microtasks included).               *)
(***************************************************************************)
EXTENDS Naturals, FiniteSets, Sequences, TLC

\* ---------------------------------------------------------------- bounds
MaxReq == 2          \* requests the application issues through `api`
MaxOps == 1          \* page operations awaiting a vendor call at one time
MaxEdits == 2        \* form input changes on the vendor page

\* ------------------------------------------------------------ api client
VARIABLES token, refreshToken, defaultAuth, location, req

\* ----------------------------------------------------------- vendor page
VARIABLES user, mounted, accounts, form, error, loading, inflight,
          edits, deniedCalls, event

apiVars == <<token, refreshToken, defaultAuth, location, req>>

pageVars == <<user, mounted, accounts, form, error, loading, inflight,
              edits, deniedCalls, event>>

vars == <<token, refreshToken, defaultAuth, location, req,
          user, mounted, accounts, form, error, loading, inflight,
          edits, deniedCalls, event>>

Reqs == 1..MaxReq

\* localStorage.getItem of a missing key, a header that is not set
NULL == "<null>"

\* access tokens the refresh endpoint may return, the token a login stored
AccessTokens == {"A", "B"}
LoginToken == "T0"
LoginRefreshToken == "R0"

\* what the server may answer to a request: a 2xx, a 401, another error
\* status, or nothing at all (network error: error.response is undefined)
Responses == {"200", "401", "500", "network"}
Unauthorized == "401"

\* JavaScript truthiness of a localStorage value (string | null)
Truthy(x) == x # NULL /\ x # ""

\* `Bearer ${token}`
Bearer(t) == "Bearer " \o t

\* api(config): axios merges the instance defaults under the request's own
\* headers before the request interceptors run
MergeHeaders(cfgAuth, defAuth) == IF cfgAuth # NULL THEN cfgAuth ELSE defAuth

\* variant: the interceptor does not set the header from localStorage
RequestInterceptorStale(auth, tok) == auth

\* request interceptor: if (token) config.headers.Authorization = ...
RequestInterceptor(auth, tok) == IF Truthy(tok) THEN Bearer(tok) ELSE auth

\* the header a config leaves with when it is sent through `api` now
SentAuth(cfgAuth) == RequestInterceptor(MergeHeaders(cfgAuth, defaultAuth), token)

\* variant: the _retry flag is not tested
ShouldRefreshNoRetryFlag(resp, retry) == resp = Unauthorized

\* variant: every failed response starts a refresh
ShouldRefreshAnyError(resp, retry) == resp # "200" /\ ~retry

\* error.response?.status === 401 && !originalRequest._retry
ShouldRefresh(resp, retry) == resp = Unauthorized /\ ~retry

NewReq ==
    [pc |-> "idle", retry |-> FALSE, auth |-> NULL, preAuth |-> NULL,
     sentTok |-> NULL, sends |-> 0, refreshes |-> 0, firstResp |-> "none",
     retryResp |-> "none", access |-> "none", outcome |-> "pending",
     err |-> "none"]

ApiInit ==
    /\ token \in {NULL, LoginToken}
    /\ refreshToken \in {NULL, LoginRefreshToken}
    /\ defaultAuth = NULL
    /\ location = "/app"
    /\ req = [r \in Reqs |-> NewReq]

\* api.get / api.post / ... : the config goes through the request
\* interceptor and is sent
Request(r) ==
    /\ req[r].pc = "idle"
    /\ req' = [req EXCEPT ![r].pc = "inflight",
                          ![r].preAuth = MergeHeaders(req[r].auth, defaultAuth),
                          ![r].auth = SentAuth(req[r].auth),
                          ![r].sentTok = token,
                          ![r].sends = 1]
    /\ UNCHANGED <<token, refreshToken, defaultAuth, location>>

\* which response answered: the first send or the re-send
Answered(r, resp) ==
    IF req[r].retry THEN [req[r] EXCEPT !.retryResp = resp]
                    ELSE [req[r] EXCEPT !.firstResp = resp]

ErrId(r) == IF req[r].retry THEN "retry" ELSE "first"

\* response interceptor, success handler
ResponseOk(r) ==
    /\ req[r].pc = "inflight"
    /\ req' = [req EXCEPT ![r] = [Answered(r, "200") EXCEPT
                                    !.pc = "done", !.outcome = "resolved"]]
    /\ UNCHANGED <<token, refreshToken, defaultAuth, location>>

\* variant: the catch block leaves 'refreshToken' in localStorage
ForcedLogoutKeepsRefreshToken ==
    /\ token' = NULL
    /\ refreshToken' = refreshToken
    /\ defaultAuth' = NULL
    /\ location' = "/login"

\* catch (refreshError): clear tokens, drop the default header, redirect
ForcedLogout ==
    /\ token' = NULL
    /\ refreshToken' = NULL
    /\ defaultAuth' = NULL
    /\ location' = "/login"

\* variant: `return await api(originalRequest)`
RetryRejectionCaughtAwaited == TRUE

\* `return api(originalRequest)` inside the try block is returned without
\* await: a rejection of the re-sent request is not caught by catch
\* (refreshError)
RetryRejectionCaught == FALSE

\* response interceptor, error handler up to its first await (or its end)
ResponseError(r, resp) ==
    /\ req[r].pc = "inflight"
    /\ resp # "200"
    /\ IF ShouldRefresh(resp, req[r].retry)
       THEN IF ~Truthy(refreshToken)
            THEN \* throw new Error('No refresh token available') -> catch
                 /\ ForcedLogout
                 /\ req' = [req EXCEPT ![r] = [Answered(r, resp) EXCEPT
                                !.retry = TRUE, !.pc = "done",
                                !.outcome = "rejected",
                                !.err = "noRefreshToken"]]
            ELSE \* axios.post(.../token/refresh/) is sent, then awaited
                 /\ req' = [req EXCEPT ![r] = [Answered(r, resp) EXCEPT
                                !.retry = TRUE, !.pc = "refreshing",
                                !.refreshes = @ + 1]]
                 /\ UNCHANGED <<token, refreshToken, defaultAuth, location>>
       ELSE \* return Promise.reject(error)
            /\ req' = [req EXCEPT ![r] = [Answered(r, resp) EXCEPT
                           !.pc = "done", !.outcome = "rejected",
                           !.err = ErrId(r)]]
            /\ IF req[r].retry /\ RetryRejectionCaught
               THEN ForcedLogout
               ELSE UNCHANGED <<token, refreshToken, defaultAuth, location>>

\* originalRequest.headers.Authorization = `Bearer ${access}`
RetryHeader(oldAuth, access) == Bearer(access)

\* the refresh call resolved with { access }: store it, re-send the request
RefreshSucceeds(r, a) ==
    /\ req[r].pc = "refreshing"
    /\ token' = a
    /\ defaultAuth' = Bearer(a)
    /\ LET hdr == RetryHeader(req[r].auth, a)
           merged == MergeHeaders(hdr, defaultAuth')
       IN req' = [req EXCEPT ![r].access = a,
                             ![r].pc = "inflight",
                             ![r].preAuth = merged,
                             ![r].auth = RequestInterceptor(merged, token'),
                             ![r].sentTok = token',
                             ![r].sends = @ + 1]
    /\ UNCHANGED <<refreshToken, location>>

\* the refresh call rejected: catch (refreshError)
RefreshFails(r) ==
    /\ req[r].pc = "refreshing"
    /\ ForcedLogout
    /\ req' = [req EXCEPT ![r].pc = "done", ![r].outcome = "rejected",
                          ![r].err = "refresh"]

ApiNext ==
    \E r \in Reqs :
        \/ Request(r) /\ UNCHANGED pageVars
        \/ ResponseOk(r) /\ UNCHANGED pageVars
        \/ \E resp \in Responses : ResponseError(r, resp) /\ UNCHANGED pageVars
        \/ \E a \in AccessTokens : RefreshSucceeds(r, a) /\ UNCHANGED pageVars
        \/ RefreshFails(r) /\ UNCHANGED pageVars

\* ------------------------------------------------------------ vendor page
Vendors == {"cielo", "nest", "nethome"}

\* useAuth().user: absent, an administrator, or another role
NoUser == "<none>"
Users == {NoUser, "admin", "member"}

Fields ==
    {"cieloApiKey", "cieloAccountName", "cieloPropertyId",
     "nestAccessToken", "nestRefreshToken", "nestExpiresAt",
     "nestAccountName", "nestPropertyId",
     "nethomeApiKey", "nethomeAccountName", "nethomePropertyId"}

\* the inputs each submit handler resets after createAccount resolves
VendorFields(v) ==
    CASE v = "cielo" -> {"cieloApiKey", "cieloAccountName", "cieloPropertyId"}
      [] v = "nest" -> {"nestAccessToken", "nestRefreshToken", "nestExpiresAt",
                        "nestAccountName", "nestPropertyId"}
      [] v = "nethome" -> {"nethomeApiKey", "nethomeAccountName",
                           "nethomePropertyId"}

\* the inputs each submit handler tests before it calls createAccount
RequiredFields(v) ==
    CASE v = "cielo" -> {"cieloApiKey"}
      [] v = "nest" -> {"nestAccessToken", "nestRefreshToken", "nestExpiresAt"}
      [] v = "nethome" -> {"nethomeApiKey"}

RequiredMsg(v) ==
    CASE v = "cielo" -> "Cielo API key is required"
      [] v = "nest" ->
            "Nest access token, refresh token and expires_at are required"
      [] v = "nethome" -> "NetHome API key is required"

FallbackMsg(v) ==
    CASE v = "cielo" -> "Failed to create Cielo account"
      [] v = "nest" -> "Failed to create Nest account"
      [] v = "nethome" -> "Failed to create NetHome account"

LoadFallbackMsg == "Failed to load vendor accounts"

\* values an input may hold, the account list a listAccounts call returns
\* (the lists start as the literal []), and the message of a rejection (an
\* Error whose message may be empty)
FieldValues == {"", "x"}
NoList == "[]"
ListValues == {"fetched"}
ErrMessages == {"", "Network Error"}

\* variant: err.message alone
ErrorMessageNoFallback(msg, fallback) == msg

\* err.message || fallback
ErrorMessage(msg, fallback) == IF msg # "" THEN msg ELSE fallback

\* variant: the role is not tested
IsAdminAnyUser(u) == u # NoUser

\* !user || user.role !== 'admin', negated
IsAdmin(u) == u # NoUser /\ u = "admin"

\* variant: the required inputs are not tested
ValidSkipped(v) == TRUE

\* if (!cieloApiKey) ... ; if (!nestAccessToken || !nestRefreshToken ||
\* !nestExpiresAt) ... ; if (!nethomeApiKey) ...
Valid(v) == \A f \in RequiredFields(v) : form[f] # ""

\* what the component renders
View == IF IsAdmin(user) THEN "Vendor Accounts" ELSE "Access Denied"

FormAvailable == View = "Vendor Accounts"

\* the asynchronous operations of the page that await a vendor call: a
\* fetchAccounts awaiting Promise.all, a submit handler awaiting
\* createAccount, a submit handler awaiting its list refresh
OpKinds ==
    {[kind |-> "load", v |-> "all"]}
      \cup {[kind |-> k, v |-> v] : k \in {"create", "refresh"}, v \in Vendors}

\* the vendor calls issued by a step, recorded against the user in whose
\* session they are issued
Denied(u, kinds) == IF u = "admin" THEN deniedCalls ELSE deniedCalls \cup kinds

Ev(h, v, n) == [h |-> h, v |-> v, calls |-> n]

PageInit ==
    /\ user \in Users
    /\ mounted = FALSE
    /\ accounts = [v \in Vendors |-> NoList]
    /\ form = [f \in Fields |-> ""]
    /\ error = NULL
    /\ loading = FALSE
    /\ inflight = [k \in OpKinds |-> 0]
    /\ edits = 0
    /\ deniedCalls = {}
    /\ event = Ev("init", "all", 0)

\* number of operations awaiting a vendor call
RECURSIVE SumOver(_)
SumOver(S) ==
    IF S = {} THEN 0
    ELSE LET k == CHOOSE x \in S : TRUE IN inflight[k] + SumOver(S \ {k})

Pending == SumOver(OpKinds)

Await(k) == [inflight EXCEPT ![k] = @ + 1]
Settle(k) == [inflight EXCEPT ![k] = @ - 1]

\* useEffect(() => { if (!user || user.role !== 'admin') return;
\* fetchAccounts(); }, [user]) run for user value u, up to the await
Effect(u) ==
    IF ~IsAdmin(u)
    THEN /\ event' = Ev("effect", "all", 0)
         /\ UNCHANGED <<inflight, loading, error, deniedCalls>>
    ELSE /\ Pending < MaxOps
         /\ loading' = TRUE
         /\ error' = NULL
         /\ inflight' = Await([kind |-> "load", v |-> "all"])
         /\ event' = Ev("effect", "all", Cardinality(Vendors))
         /\ deniedCalls' = Denied(u, {"load"})

\* first render: the effect runs with the current user
Mount ==
    /\ ~mounted
    /\ mounted' = TRUE
    /\ Effect(user)
    /\ UNCHANGED <<user, accounts, form, edits>>

\* useAuth() hands the component another user: re-render, effect re-runs
SetUser(u) ==
    /\ mounted
    /\ u # user
    /\ user' = u
    /\ Effect(u)
    /\ UNCHANGED <<mounted, accounts, form, edits>>

\* onChange of an input of a rendered form
Edit(f, val) ==
    /\ mounted /\ FormAvailable
    /\ edits < MaxEdits
    /\ form[f] # val
    /\ form' = [form EXCEPT ![f] = val]
    /\ edits' = edits + 1
    /\ event' = Ev("edit", "all", 0)
    /\ UNCHANGED <<user, mounted, accounts, error, loading, inflight,
                   deniedCalls>>

\* Promise.all of the three listAccounts calls resolved
LoadResolves(lists) ==
    LET k == [kind |-> "load", v |-> "all"] IN
    /\ inflight[k] > 0
    /\ accounts' = lists
    /\ loading' = FALSE
    /\ inflight' = Settle(k)
    /\ event' = Ev("loadResolved", "all", 0)
    /\ UNCHANGED <<user, mounted, form, error, edits, deniedCalls>>

\* one of the three listAccounts calls rejected: catch, then finally
LoadRejects(msg) ==
    LET k == [kind |-> "load", v |-> "all"] IN
    /\ inflight[k] > 0
    /\ error' = ErrorMessage(msg, LoadFallbackMsg)
    /\ loading' = FALSE
    /\ inflight' = Settle(k)
    /\ event' = Ev("loadRejected", "all", 0)
    /\ UNCHANGED <<user, mounted, accounts, form, edits, deniedCalls>>

\* handleCieloCreate / handleNestCreate / handleNetHomeCreate up to the
\* await of createAccount (or the early return)
Submit(v) ==
    /\ mounted /\ FormAvailable
    /\ IF ~Valid(v)
       THEN /\ error' = RequiredMsg(v)
            /\ event' = Ev("submit", v, 0)
            /\ UNCHANGED <<inflight, deniedCalls>>
       ELSE /\ Pending < MaxOps
            /\ error' = NULL
            /\ inflight' = Await([kind |-> "create", v |-> v])
            /\ event' = Ev("submit", v, 1)
            /\ deniedCalls' = Denied(user, {"create"})
    /\ UNCHANGED <<user, mounted, accounts, form, loading, edits>>

\* createAccount resolved: reset the vendor's inputs, call refreshCielo /
\* refreshNest / refreshNetHome, which issues listAccounts
CreateResolves(v) ==
    /\ inflight[[kind |-> "create", v |-> v]] > 0
    /\ form' = [f \in Fields |-> IF f \in VendorFields(v) THEN "" ELSE form[f]]
    /\ inflight' = [inflight EXCEPT ![[kind |-> "create", v |-> v]] = @ - 1,
                                    ![[kind |-> "refresh", v |-> v]] = @ + 1]
    /\ deniedCalls' = Denied(user, {"refresh"})
    /\ event' = Ev("createResolved", v, 1)
    /\ UNCHANGED <<user, mounted, accounts, error, loading, edits>>

\* createAccount rejected: catch
CreateRejects(v, msg) ==
    /\ inflight[[kind |-> "create", v |-> v]] > 0
    /\ error' = ErrorMessage(msg, FallbackMsg(v))
    /\ inflight' = Settle([kind |-> "create", v |-> v])
    /\ event' = Ev("createRejected", v, 0)
    /\ UNCHANGED <<user, mounted, accounts, form, loading, edits,
                   deniedCalls>>

\* the listAccounts call of the refresh resolved
RefreshListResolves(v, l) ==
    /\ inflight[[kind |-> "refresh", v |-> v]] > 0
    /\ accounts' = [accounts EXCEPT ![v] = l]
    /\ inflight' = Settle([kind |-> "refresh", v |-> v])
    /\ event' = Ev("refreshResolved", v, 0)
    /\ UNCHANGED <<user, mounted, form, error, loading, edits,
                   deniedCalls>>

\* the listAccounts call of the refresh rejected: the same catch
RefreshListRejects(v, msg) ==
    /\ inflight[[kind |-> "refresh", v |-> v]] > 0
    /\ error' = ErrorMessage(msg, FallbackMsg(v))
    /\ inflight' = Settle([kind |-> "refresh", v |-> v])
    /\ event' = Ev("refreshRejected", v, 0)
    /\ UNCHANGED <<user, mounted, accounts, form, loading, edits,
                   deniedCalls>>

PageNext ==
    \/ Mount /\ UNCHANGED apiVars
    \/ \E u \in Users : SetUser(u) /\ UNCHANGED apiVars
    \/ \E f \in Fields, val \in FieldValues : Edit(f, val) /\ UNCHANGED apiVars
    \/ \E v \in Vendors : Submit(v) /\ UNCHANGED apiVars
    \/ \E lists \in [Vendors -> ListValues] :
          LoadResolves(lists) /\ UNCHANGED apiVars
    \/ \E msg \in ErrMessages : LoadRejects(msg) /\ UNCHANGED apiVars
    \/ \E v \in Vendors : CreateResolves(v) /\ UNCHANGED apiVars
    \/ \E v \in Vendors, msg \in ErrMessages :
          CreateRejects(v, msg) /\ UNCHANGED apiVars
    \/ \E v \in Vendors, l \in ListValues :
          RefreshListResolves(v, l) /\ UNCHANGED apiVars
    \/ \E v \in Vendors, msg \in ErrMessages :
          RefreshListRejects(v, msg) /\ UNCHANGED apiVars

\* ------------------------------------------------------- specifications
\* the api client alone: the page is not mounted
PageIdle == PageInit /\ user = NoUser

\* the page alone: the client is idle
ApiIdle == ApiInit /\ token = LoginToken /\ refreshToken = LoginRefreshToken

ApiSpecInit == ApiInit /\ PageIdle

PageSpecInit == ApiIdle /\ PageInit

ApiSpec == ApiSpecInit /\ [][ApiNext]_vars

PageSpec == PageSpecInit /\ [][PageNext]_vars

\* ------------------------------------------------- api client: properties

\* C1: a request triggers at most one refresh call and is re-sent at most
\* once; a 401 answering the re-sent request is rejected to the caller as
\* it is, with no second refresh attempt.
C1_SingleRetry ==
    \A r \in Reqs :
        /\ req[r].refreshes <= 1
        /\ req[r].sends <= 2
        /\ req[r].retryResp = Unauthorized =>
              /\ req[r].pc = "done"
              /\ req[r].outcome = "rejected"
              /\ req[r].err = "retry"
              /\ req[r].refreshes = 1

C1_Witness ==
    \E r \in Reqs : req[r].retryResp = Unauthorized /\ req[r].pc = "done"

\* the refresh call of r rejects in this step
RefreshRejectedStep(r) ==
    req[r].pc = "refreshing" /\ req'[r].pc = "done"

\* a first 401 arrives for r in this step while no refresh token is stored
NoRefreshTokenStep(r) ==
    /\ req[r].pc = "inflight" /\ ~req[r].retry
    /\ req'[r].firstResp = Unauthorized
    /\ ~Truthy(refreshToken)

\* C2: when reauthentication fails (the refresh call rejects, or no refresh
\* token is stored, and then no refresh call is sent), the interceptor ends
\* with token and refreshToken removed, the default Authorization header
\* deleted, window.location at /login, and the caller rejected with the
\* refresh error, not with the original 401 error.
C2_RefreshFailureLogsOut ==
    [][\A r \in Reqs :
         /\ (RefreshRejectedStep(r) \/ NoRefreshTokenStep(r)) =>
               /\ token' = NULL /\ refreshToken' = NULL
               /\ defaultAuth' = NULL /\ location' = "/login"
               /\ req'[r].pc = "done" /\ req'[r].outcome = "rejected"
         /\ RefreshRejectedStep(r) => req'[r].err = "refresh"
         /\ NoRefreshTokenStep(r) =>
               req'[r].err = "noRefreshToken" /\ req'[r].refreshes = 0
      ]_vars

C2_Witness ==
    \E r1, r2 \in Reqs :
        /\ req[r1].pc = "done" /\ req[r1].err = "refresh"
        /\ req[r2].pc = "done" /\ req[r2].err = "noRefreshToken"
        /\ token = NULL /\ location = "/login"

\* the refresh call of r resolves in this step
RefreshResolvedStep(r) ==
    req[r].pc = "refreshing" /\ req'[r].pc = "inflight"

\* the re-sent request of r, sent after a successful refresh, is answered
RetryAnsweredStep(r) ==
    /\ req[r].pc = "inflight" /\ req[r].retry /\ req[r].access # "none"
    /\ req'[r].pc = "done"

\* C3: when the refresh succeeds with access token A, token becomes A, the
\* request is re-sent with Authorization 'Bearer A', the caller gets exactly
\* the outcome of the re-sent request, and refreshToken and window.location
\* are left as they were.
C3_RefreshThenRetry ==
    [][\A r \in Reqs :
         /\ RefreshResolvedStep(r) =>
               /\ token' = req'[r].access
               /\ req'[r].access \in AccessTokens
               /\ req'[r].auth = Bearer(req'[r].access)
               /\ req'[r].sends = req[r].sends + 1
               /\ refreshToken' = refreshToken /\ location' = location
         /\ RetryAnsweredStep(r) =>
               /\ req'[r].retryResp = "200" => req'[r].outcome = "resolved"
               /\ req'[r].retryResp # "200" =>
                     req'[r].outcome = "rejected" /\ req'[r].err = "retry"
               /\ refreshToken' = refreshToken /\ location' = location
               /\ token' = token /\ defaultAuth' = defaultAuth
      ]_vars

C3_Witness ==
    \E r1, r2 \in Reqs :
        /\ req[r1].access = "A" /\ req[r1].pc = "done"
        /\ req[r1].retryResp = "200" /\ req[r1].outcome = "resolved"
        /\ req[r2].access = "B" /\ req[r2].pc = "done"
        /\ req[r2].retryResp = "500" /\ req[r2].outcome = "rejected"
        /\ location = "/app"

\* C4: a request sent while localStorage holds token T carries
\* Authorization 'Bearer T', T read when the request is sent (the re-send
\* after a refresh included); with no token stored the request interceptor
\* leaves the Authorization header as it found it.
C4_BearerOfStoredToken ==
    \A r \in Reqs :
        req[r].sends > 0 =>
            /\ req[r].sentTok # NULL => req[r].auth = Bearer(req[r].sentTok)
            /\ req[r].sentTok = NULL => req[r].auth = req[r].preAuth

C4_Witness ==
    \E r1, r2 \in Reqs :
        /\ req[r1].sends = 2 /\ req[r1].sentTok = "A"
        /\ req[r1].auth = "Bearer A"
        /\ req[r2].sends = 1 /\ req[r2].sentTok = NULL /\ req[r2].auth = NULL

NonAuthErrors == Responses \ {"200", Unauthorized}

\* an error other than a 401 arrives for r in this step
NonAuthErrorStep(r) ==
    /\ req[r].pc = "inflight"
    /\ \/ ~req[r].retry /\ req[r].firstResp = "none"
                        /\ req'[r].firstResp \in NonAuthErrors
       \/ req[r].retry /\ req[r].retryResp = "none"
                       /\ req'[r].retryResp \in NonAuthErrors

\* C7: an error that is not a 401 response (another status, or no response)
\* is rejected to the caller as it is; no refresh request is sent and token,
\* refreshToken, the default Authorization header and window.location stay.
C7_OtherErrorsPassThrough ==
    [][\A r \in Reqs :
         NonAuthErrorStep(r) =>
            /\ req'[r].pc = "done" /\ req'[r].outcome = "rejected"
            /\ req'[r].err = ErrId(r)
            /\ req'[r].refreshes = req[r].refreshes
            /\ UNCHANGED <<token, refreshToken, defaultAuth, location>>
      ]_vars

C7_Witness ==
    \E r1, r2 \in Reqs :
        /\ req[r1].pc = "done" /\ req[r1].firstResp = "network"
        /\ req[r1].err = "first" /\ req[r1].refreshes = 0
        /\ req[r2].pc = "done" /\ req[r2].firstResp = "500"
        /\ token = LoginToken /\ refreshToken = LoginRefreshToken

\* a failed refresh has cleared the session
SessionCleared ==
    /\ token = NULL /\ refreshToken = NULL /\ defaultAuth = NULL
    /\ location = "/login"

\* C9: once a failed refresh has cleared the session, no later interceptor
\* step of another in-flight request writes an access token back or restores
\* the default Authorization header.
C9_LogoutIsStable == [][SessionCleared => SessionCleared']_vars

\* ------------------------------------------------ vendor page: properties

NonAdmin == user # "admin"

\* C5 as claimed: while the user is absent or not an admin the page shows
\* Access Denied, offers no create form, and no vendor call is ever issued.
C5_NoVendorCallWhileNonAdmin ==
    /\ NonAdmin => View = "Access Denied" /\ ~FormAvailable
    /\ deniedCalls = {}

\* C5 as amended: while the user is absent or not an admin the page shows
\* Access Denied and offers no create form; no initial load and no
\* createAccount call is issued, and the only vendor call that can be issued
\* is the list refresh of a create submitted while the user was an admin.
C5_NonAdminDenied ==
    /\ NonAdmin => View = "Access Denied" /\ ~FormAvailable
    /\ deniedCalls \subseteq {"refresh"}

C5_Witness ==
    /\ mounted /\ user = "member"
    /\ event.h = "effect" /\ event.calls = 0
    /\ deniedCalls = {"refresh"}

RejectedEvents == {"loadRejected", "createRejected", "refreshRejected"}

\* C6: when the initial load, a createAccount call or the list refresh
\* after a create rejects, the handler catches it and completes, and when it
\* completes the page's error state is a non-empty message.
C6_FailuresSurfaceInline ==
    [][event'.h \in RejectedEvents =>
          /\ error' # NULL /\ error' # ""
          /\ Pending' = Pending - 1
          /\ event'.h = "loadRejected" => loading' = FALSE
      ]_vars

C6_Witness ==
    /\ event.h = "refreshRejected" /\ event.v = "cielo"
    /\ error = "Failed to create Cielo account"
    /\ Pending = 0

RequiredEmpty(v) == \E f \in RequiredFields(v) : form[f] = ""

\* C8: submitting a create form with a required field empty sets the
\* vendor's 'required' message, issues no createAccount or listAccounts
\* call, and leaves the form inputs and the three account lists unchanged.
C8_RequiredFieldValidation ==
    [][\A v \in Vendors :
          (event'.h = "submit" /\ event'.v = v /\ RequiredEmpty(v)) =>
             /\ error' = RequiredMsg(v)
             /\ event'.calls = 0
             /\ inflight' = inflight
             /\ form' = form
             /\ accounts' = accounts
      ]_vars

C8_Witness ==
    /\ event.h = "submit" /\ event.v = "nest" /\ event.calls = 0
    /\ form["nestAccessToken"] = "x" /\ form["nestRefreshToken"] = "x"
    /\ form["nestExpiresAt"] = ""
    /\ error = RequiredMsg("nest")

====
